---------------------------- MODULE Spec2Model ----------------------------
(***************************************************************************)
(* Selection state machine of the Home page (src/src/pages/Home.tsx).      *)
(*                                                                         *)
(* Home is a React function component with two state hooks,                *)
(* selectedCharacterId and grayedOutCards, and two click handlers,         *)
(* handleCharacterSelect(id) and handleReset().  A handler reads the       *)
(* values its render captured and only ENQUEUES state updates (a new value *)
(* or an updater function prev => ...); React applies the whole batch in   *)
(* one re-render when the click's dispatch ends, before the next click is  *)
(* dispatched.  The model keeps that structure: a handler step fills       *)
(* `queue`, the Render step applies it.                                    *)
(***************************************************************************)
EXTENDS Integers, Sequences, FiniteSets

\* ------------------------------------------------------------------ bounds

\* Cards in the catalog (the repository's catalog has 24; ids are 0-based).
NumCharacters == 4

\* Click events delivered in one behaviour.
MaxEvents == 5

\* ------------------------------------------------------- program constants

\* `null`, the value of selectedCharacterId while nothing is locked.
null == -1

\* character.id of the cards the grid renders.
CharacterIds == 0 .. (NumCharacters - 1)

\* --------------------------------------------------------------- the state

VARIABLES
    selectedCharacterId,  \* hook state as of the latest render: null or an id
    grayedOutCards,       \* hook state as of the latest render: a set of ids
    queue,                \* state updates enqueued by a handler, not yet rendered
    pc,                   \* "idle": waiting for a click; "flush": a handler has run
    events,               \* history: the clicks handled, with what the handler read
    states                \* history: the hook state after each click's re-render

vars == <<selectedCharacterId, grayedOutCards, queue, pc, events, states>>

\* The two hook values as one record.
HookState(sel, gray) == [selectedCharacterId |-> sel, grayedOutCards |-> gray]

\* useState<number | null>(null), useState<Set<number>>(new Set()).
InitialState == HookState(null, {})

\* ------------------------------------------------------- the state updates

\* setSelectedCharacterId(v): replace the value.
SetSelectedCharacterId(v) ==
    [setter |-> "setSelectedCharacterId", kind |-> "value", arg |-> v]

\* setGrayedOutCards(new Set()): replace the value by an empty set.
SetGrayedOutCardsNew ==
    [setter |-> "setGrayedOutCards", kind |-> "value", arg |-> null]

\* setGrayedOutCards(prev => ...): the updater of handleCharacterSelect, for id.
SetGrayedOutCardsUpdater(id) ==
    [setter |-> "setGrayedOutCards", kind |-> "updater", arg |-> id]

\* The updater's body with the toggle dropped: ids are only ever added.
ToggleAddOnly(prev, id) == prev \cup {id}

\* The updater's body starting from an empty set (new Set() for new Set(prev)):
\* the other excluded ids are lost.
ToggleFresh(prev, id) ==
    IF id \in prev THEN {} ELSE {id}

\* The updater's body: copy prev, delete id if present, add it otherwise.
Toggle(prev, id) ==
    IF id \in prev THEN prev \ {id} ELSE prev \cup {id}

\* One update applied to the hook state, as React's re-render does.
ApplyUpdate(s, u) ==
    IF u.setter = "setSelectedCharacterId"
    THEN [s EXCEPT !.selectedCharacterId = u.arg]
    ELSE IF u.kind = "value"
         THEN [s EXCEPT !.grayedOutCards = {}]
         ELSE [s EXCEPT !.grayedOutCards = Toggle(@, u.arg)]

\* The pending updates applied in the order they were enqueued.
RECURSIVE ApplyUpdates(_, _)
ApplyUpdates(s, q) ==
    IF q = <<>> THEN s ELSE ApplyUpdates(ApplyUpdate(s, Head(q)), Tail(q))

\* ------------------------------------------------------------ the handlers

\* handleCharacterSelect without the null test: every click sets the lock.
handleCharacterSelectRelock(sel, id) == <<SetSelectedCharacterId(id)>>

\* handleCharacterSelect without the id !== selectedCharacterId test.
handleCharacterSelectNoSelfTest(sel, id) ==
    IF sel = null
    THEN <<SetSelectedCharacterId(id)>>
    ELSE <<SetGrayedOutCardsUpdater(id)>>

\* handleCharacterSelect where a click on the locked card releases the lock.
handleCharacterSelectUnlock(sel, id) ==
    IF sel = null
    THEN <<SetSelectedCharacterId(id)>>
    ELSE IF id # sel
         THEN <<SetGrayedOutCardsUpdater(id)>>
         ELSE <<SetSelectedCharacterId(null)>>

\* handleCharacterSelect(id), run by a render whose selectedCharacterId is sel:
\* the updates it enqueues.
handleCharacterSelect(sel, id) ==
    IF sel = null
    THEN <<SetSelectedCharacterId(id)>>
    ELSE IF id # sel
         THEN <<SetGrayedOutCardsUpdater(id)>>
         ELSE <<>>

\* handleReset that forgets setSelectedCharacterId(null).
handleResetKeepsLock == <<SetGrayedOutCardsNew>>

\* handleReset that forgets setGrayedOutCards(new Set()).
handleResetKeepsGrayed == <<SetSelectedCharacterId(null)>>

\* handleReset(): the updates it enqueues.
handleReset == <<SetSelectedCharacterId(null), SetGrayedOutCardsNew>>

\* ------------------------------------------------- what the render derives

\* The header's prompt with its two texts swapped.
promptTextSwapped(sel) ==
    IF sel = null
    THEN "Character selected and locked"
    ELSE "Click any character to select"

\* The header's prompt: selectedCharacterId === null ? ... : ...
promptText(sel) ==
    IF sel = null
    THEN "Click any character to select"
    ELSE "Character selected and locked"

\* The grid's heading: selectedCharacterId === null ? ... : ...
gridHeading(sel) ==
    IF sel = null
    THEN "Choose Your Character"
    ELSE "Exclude Other Characters"

\* The catalog: characters.json, an array whose entry at position i has id i
\* (0-based, contiguous) and a display reference.
characters == [i \in 0 .. (NumCharacters - 1) |-> [id |-> i, path |-> i]]

\* The value of selectedCharacter when nothing is locked (null).
NoCharacter == [id |-> null, path |-> null]

\* selectedCharacter read as if ids were 1-based: characters[id - 1], which is
\* undefined (shown as no character) for id 0.
selectedCharacterOneBased(sel) ==
    IF sel # null /\ (sel - 1) \in DOMAIN characters
    THEN characters[sel - 1]
    ELSE NoCharacter

\* const selectedCharacter = selectedCharacterId !== null
\*     ? characters[selectedCharacterId] : null
selectedCharacter(sel) ==
    IF sel # null THEN characters[sel] ELSE NoCharacter

\* const isSelected = selectedCharacterId === character.id
isSelected(sel, id) == sel = id

\* const isGrayedOut = grayedOutCards.has(character.id)
isGrayedOut(gray, id) == id \in gray

\* ------------------------------------------------------------- the actions

Init ==
    /\ selectedCharacterId = InitialState.selectedCharacterId
    /\ grayedOutCards = InitialState.grayedOutCards
    /\ queue = <<>>
    /\ pc = "idle"
    /\ events = <<>>
    /\ states = <<>>

\* A click on card id that is dispatched while the previous click's updates
\* are still pending.
HandleCharacterSelectEarly(id) ==
    /\ Len(events) < MaxEvents
    /\ queue' = queue \o handleCharacterSelect(selectedCharacterId, id)
    /\ pc' = "flush"
    /\ events' = Append(events, [op |-> "select", id |-> id,
                                 seen |-> selectedCharacterId])
    /\ UNCHANGED <<selectedCharacterId, grayedOutCards, states>>

\* A click handler that fails on a card that is already grayed out: the click
\* has no successor state.
HandleCharacterSelectFails(id) ==
    /\ pc = "idle"
    /\ Len(events) < MaxEvents
    /\ id \notin grayedOutCards
    /\ queue' = queue \o handleCharacterSelect(selectedCharacterId, id)
    /\ pc' = "flush"
    /\ events' = Append(events, [op |-> "select", id |-> id,
                                 seen |-> selectedCharacterId])
    /\ UNCHANGED <<selectedCharacterId, grayedOutCards, states>>

\* onClick={() => handleCharacterSelect(character.id)}: the handler runs with the
\* values of the latest render and enqueues its updates.
HandleCharacterSelect(id) ==
    /\ pc = "idle"
    /\ Len(events) < MaxEvents
    /\ queue' = queue \o handleCharacterSelect(selectedCharacterId, id)
    /\ pc' = "flush"
    /\ events' = Append(events, [op |-> "select", id |-> id,
                                 seen |-> selectedCharacterId])
    /\ UNCHANGED <<selectedCharacterId, grayedOutCards, states>>

\* onClick={handleReset}.
HandleReset ==
    /\ pc = "idle"
    /\ Len(events) < MaxEvents
    /\ queue' = queue \o handleReset
    /\ pc' = "flush"
    /\ events' = Append(events, [op |-> "reset", id |-> null,
                                 seen |-> selectedCharacterId])
    /\ UNCHANGED <<selectedCharacterId, grayedOutCards, states>>

\* A re-render that applies only the first pending update.
RenderFirstOnly ==
    /\ pc = "flush"
    /\ LET s == ApplyUpdates(HookState(selectedCharacterId, grayedOutCards),
                             IF queue = <<>> THEN <<>> ELSE <<Head(queue)>>)
       IN /\ selectedCharacterId' = s.selectedCharacterId
          /\ grayedOutCards' = s.grayedOutCards
          /\ states' = Append(states, s)
    /\ queue' = IF queue = <<>> THEN <<>> ELSE Tail(queue)
    /\ pc' = "idle"
    /\ UNCHANGED events

\* The end of a click's dispatch: React applies every pending update of both
\* hooks in one re-render, whose values the next handler call reads.
Render ==
    /\ pc = "flush"
    /\ LET s == ApplyUpdates(HookState(selectedCharacterId, grayedOutCards), queue)
       IN /\ selectedCharacterId' = s.selectedCharacterId
          /\ grayedOutCards' = s.grayedOutCards
          /\ states' = Append(states, s)
    /\ queue' = <<>>
    /\ pc' = "idle"
    /\ UNCHANGED events

\* The grid passing a card's 1-based position to the handler in place of
\* character.id.
NextOneBased ==
    \/ \E id \in 1 .. NumCharacters : HandleCharacterSelect(id)
    \/ HandleReset
    \/ Render

Next ==
    \/ \E id \in CharacterIds : HandleCharacterSelect(id)
    \/ HandleReset
    \/ Render

Spec == Init /\ [][Next]_vars

\* ----------------------------------------------- reading the click history

\* The hook state the k-th click found: the initial one, or the state the
\* previous click's re-render produced.
Before(k) == IF k = 1 THEN InitialState ELSE states[k - 1]

\* The last reset among the first k clicks (0 when there is none).
LastReset(k) ==
    CHOOSE j \in 0 .. k :
        /\ j = 0 \/ events[j].op = "reset"
        /\ \A m \in (j + 1) .. k : events[m].op # "reset"

\* The number of select(y) clicks among clicks a..b.
SelectCount(y, a, b) ==
    Cardinality({m \in a .. b : events[m].op = "select" /\ events[m].id = y})

\* One click handled to completion on hook state s: the handler's updates,
\* applied by the re-render.
Step(s, e) ==
    ApplyUpdates(s, IF e.op = "select"
                    THEN handleCharacterSelect(s.selectedCharacterId, e.id)
                    ELSE handleReset)

\* A sequence of clicks handled one after the other, starting in hook state s.
RECURSIVE Replay(_, _)
Replay(s, evs) ==
    IF evs = <<>> THEN s ELSE Replay(Step(s, Head(evs)), Tail(evs))

\* ------------------------------------------------------------------ claims

\* C1 (P2, irrevocable lock): after every select click, the locked id is the
\* id of the first select click since the last reset (or since the start), so
\* along a run of select clicks without a reset it is set by the first one and
\* never changes.
IrrevocableLock ==
    \A k \in 1 .. Len(states) :
        events[k].op = "select" =>
            states[k].selectedCharacterId = events[LastReset(k) + 1].id

\* C1 witness: three select clicks and no reset, the second on another card,
\* the third on the locked card again; the lock is still the first id.
IrrevocableLockWitness ==
    /\ Len(states) >= 3
    /\ \A k \in 1 .. 3 : events[k].op = "select"
    /\ events[2].id # events[1].id
    /\ events[3].id = events[1].id
    /\ states[3].selectedCharacterId = events[1].id

\* C2 (P5, exclusion/lock disjointness): in every reachable state, and after
\* every click, the locked id is not in the excluded set.
LockNotExcluded ==
    /\ selectedCharacterId \notin grayedOutCards
    /\ \A k \in 1 .. Len(states) :
           states[k].selectedCharacterId \notin states[k].grayedOutCards

\* C2 witness: a card is locked, other cards are excluded, and the locked card
\* has been clicked while it was locked.
LockNotExcludedWitness ==
    /\ selectedCharacterId # null
    /\ grayedOutCards # {}
    /\ \E k \in 2 .. Len(states) :
           /\ events[k].op = "select"
           /\ events[k].id = Before(k).selectedCharacterId
           /\ Before(k).grayedOutCards # {}

\* C3 (P3, exclusion toggles): with a lock set after click i and no reset among
\* clicks i+1..j, for every id y other than the locked one, y is excluded after
\* click j as it was after click i when select(y) was clicked an even number of
\* times in between, and the opposite when it was clicked an odd number of times.
ExclusionToggles ==
    \A i \in 1 .. Len(states) : \A j \in i .. Len(states) : \A y \in CharacterIds :
        ( /\ states[i].selectedCharacterId # null
          /\ y # states[i].selectedCharacterId
          /\ \A m \in (i + 1) .. j : events[m].op = "select" )
        => IF SelectCount(y, i + 1, j) % 2 = 0
           THEN (y \in states[j].grayedOutCards) = (y \in states[i].grayedOutCards)
           ELSE (y \in states[j].grayedOutCards) = (y \notin states[i].grayedOutCards)

\* C3 witness: y is excluded while a lock is set, then select(y) is clicked
\* three times in a row: excluded again after two, not excluded after three.
ExclusionTogglesWitness ==
    \E i \in 1 .. Len(states) : \E y \in CharacterIds :
        /\ i + 3 <= Len(states)
        /\ states[i].selectedCharacterId # null
        /\ y # states[i].selectedCharacterId
        /\ y \in states[i].grayedOutCards
        /\ \A m \in (i + 1) .. (i + 3) : events[m].op = "select" /\ events[m].id = y
        /\ y \in states[i + 2].grayedOutCards
        /\ y \notin states[i + 3].grayedOutCards

\* C4 (P1, no-op on locked self-click): a select click on the card that is
\* locked leaves the locked id and the excluded set as they were; so
\* select(L); select(L) from the empty state ends where select(L) alone does.
SelfClickNoOp ==
    \A k \in 1 .. Len(states) :
        (events[k].op = "select" /\ events[k].id = Before(k).selectedCharacterId)
        => states[k] = Before(k)

\* C4 witness: select(L); select(L) from the empty state, and later a click on
\* the locked card while other cards are excluded.
SelfClickNoOpWitness ==
    /\ Len(states) >= 4
    /\ events[1].op = "select" /\ events[2].op = "select"
    /\ events[2].id = events[1].id
    /\ states[2] = states[1]
    /\ \E k \in 3 .. Len(states) :
           /\ events[k].op = "select"
           /\ events[k].id = Before(k).selectedCharacterId
           /\ Before(k).grayedOutCards # {}

\* C5 (P4, reset totality): after every reset click, whatever the state before
\* it, nothing is locked and nothing is excluded; a reset right after a reset
\* leaves that state as it is.
ResetTotality ==
    \A k \in 1 .. Len(states) :
        events[k].op = "reset" =>
            /\ states[k] = HookState(null, {})
            /\ (k > 1 /\ events[k - 1].op = "reset") => states[k] = states[k - 1]

\* C5 witness: a reset from a locked state with excluded cards, followed by a
\* second reset from the open state.
ResetTotalityWitness ==
    \E k \in 2 .. Len(states) :
        /\ events[k - 1].op = "reset"
        /\ Before(k - 1).selectedCharacterId # null
        /\ Before(k - 1).grayedOutCards # {}
        /\ events[k].op = "reset"
        /\ Before(k).selectedCharacterId = null

\* C6 (first select locks, exclusions empty): a select(x) click that finds
\* nothing locked, at the start or after a reset, yields locked id x and an
\* empty excluded set.
FirstSelectLocks ==
    \A k \in 1 .. Len(states) :
        (events[k].op = "select" /\ Before(k).selectedCharacterId = null)
        => states[k] = HookState(events[k].id, {})

\* C6 witness: cards were excluded, a reset followed, and the next select
\* click locked its card.
FirstSelectLocksWitness ==
    \E k \in 3 .. Len(states) :
        /\ events[k - 1].op = "reset"
        /\ Before(k - 1).grayedOutCards # {}
        /\ events[k].op = "select"
        /\ states[k].selectedCharacterId = events[k].id

\* C7 (no path back to Open via select): a step that takes the locked id from
\* an id to null is the re-render of a reset click; no select click unlocks.
OnlyResetUnlocks ==
    [][ (selectedCharacterId # null /\ selectedCharacterId' = null)
        => events[Len(events)].op = "reset" ]_vars

\* C7 witness: a lock that has survived a click on the locked card and clicks
\* on other cards, with no reset so far.
OnlyResetUnlocksWitness ==
    /\ selectedCharacterId # null
    /\ Len(states) >= 4
    /\ \A k \in 1 .. Len(states) : events[k].op = "select"
    /\ \E k \in 2 .. Len(states) : events[k].id = selectedCharacterId
    /\ \E k \in 2 .. Len(states) : events[k].id # selectedCharacterId

\* C8 (reset restores the initial state): once a reset has been clicked, the
\* state after every later click is the state a freshly initialised component
\* reaches on the clicks that followed the last reset.
ResetRestoresInitial ==
    \A k \in 1 .. Len(states) :
        LastReset(k) >= 1 =>
            states[k] = Replay(InitialState, SubSeq(events, LastReset(k) + 1, k))

\* C8 witness: select(0); reset(); select(1) has been handled and ends with 1
\* locked and nothing excluded.
ResetRestoresInitialWitness ==
    /\ Len(states) = 3
    /\ events[1].op = "select" /\ events[1].id = 0
    /\ events[2].op = "reset"
    /\ events[3].op = "select" /\ events[3].id = 1
    /\ states[3] = HookState(1, {})

\* C9 (each click is handled to completion before the next): every handler call
\* finds the previous click re-rendered and reads the locked id that re-render
\* produced; whenever a click can be accepted no update is pending, so both
\* hook values show the whole effect of every earlier click.
HandledToCompletion ==
    /\ \A k \in 1 .. Len(events) :
           /\ k - 1 <= Len(states)
           /\ events[k].seen = Before(k).selectedCharacterId
    /\ pc = "idle" => (queue = <<>> /\ Len(states) = Len(events))
    /\ Len(states) > 0 =>
           states[Len(states)] = HookState(selectedCharacterId, grayedOutCards)

\* C9 witness: a reset click, which updates both hook values, was handled in a
\* state with a lock and excluded cards, and a further click was handled after it.
HandledToCompletionWitness ==
    \E k \in 2 .. Len(states) :
        /\ events[k - 1].op = "reset"
        /\ Before(k - 1).selectedCharacterId # null
        /\ Before(k - 1).grayedOutCards # {}
        /\ events[k].op = "select"
        /\ pc = "idle"

\* C10 (determinism): the hook state is a function of the click sequence: after
\* every click it is the value of Replay on the clicks so far, so two components
\* that got the same clicks are in equal states.
StateIsFunctionOfEvents ==
    /\ \A k \in 1 .. Len(states) :
           states[k] = Replay(InitialState, SubSeq(events, 1, k))
    /\ pc = "idle" =>
           HookState(selectedCharacterId, grayedOutCards) = Replay(InitialState, events)

\* C10 witness: a run with a lock, an exclusion, a reset and a new lock, all
\* handled.
StateIsFunctionOfEventsWitness ==
    /\ pc = "idle"
    /\ Len(states) = MaxEvents
    /\ \E k \in 3 .. (Len(states) - 1) :
           /\ events[k].op = "reset"
           /\ Before(k).grayedOutCards # {}
    /\ selectedCharacterId # null

\* C11 (phase is a function of the locked id): in every reachable state the
\* prompt and the grid heading both show their "open" text exactly when nothing
\* is locked and their "locked" text otherwise; the texts are the open ones
\* initially and after the re-render of every reset click, and the locked ones
\* after the re-render of every select click.
PhaseFollowsLock ==
    /\ (promptText(selectedCharacterId) = "Click any character to select")
           <=> (selectedCharacterId = null)
    /\ (promptText(selectedCharacterId) = "Character selected and locked")
           <=> (selectedCharacterId # null)
    /\ (gridHeading(selectedCharacterId) = "Choose Your Character")
           <=> (selectedCharacterId = null)
    /\ (gridHeading(selectedCharacterId) = "Exclude Other Characters")
           <=> (selectedCharacterId # null)
    /\ Len(events) = 0 =>
           /\ promptText(selectedCharacterId) = "Click any character to select"
           /\ gridHeading(selectedCharacterId) = "Choose Your Character"
    /\ \A k \in 1 .. Len(states) :
           IF events[k].op = "reset"
           THEN /\ promptText(states[k].selectedCharacterId)
                       = "Click any character to select"
                /\ gridHeading(states[k].selectedCharacterId)
                       = "Choose Your Character"
           ELSE /\ promptText(states[k].selectedCharacterId)
                       = "Character selected and locked"
                /\ gridHeading(states[k].selectedCharacterId)
                       = "Exclude Other Characters"

\* C11 witness: the texts were the locked ones after a select click on the
\* locked card, the open ones after a reset, and are the locked ones again.
PhaseFollowsLockWitness ==
    /\ pc = "idle"
    /\ promptText(selectedCharacterId) = "Character selected and locked"
    /\ \E k \in 3 .. (Len(states) - 1) :
           /\ events[k].op = "reset"
           /\ events[k - 1].op = "select"
           /\ events[k - 1].id = Before(k - 1).selectedCharacterId
           /\ gridHeading(states[k].selectedCharacterId) = "Choose Your Character"

\* The C12 property of one hook state with locked id sel.
LockedItemMatches(sel) ==
    /\ (selectedCharacter(sel) = NoCharacter) <=> (sel = null)
    /\ sel # null =>
           /\ selectedCharacter(sel) = characters[sel]
           /\ selectedCharacter(sel).id = sel
           /\ isSelected(sel, selectedCharacter(sel).id)

\* C12 (locked item): in every reachable state and after every click,
\* selectedCharacter is null exactly when nothing is locked, and otherwise is
\* the catalog entry at position selectedCharacterId, whose id is the locked id
\* (the catalog's ids being their positions), so that its card is the one
\* rendered as selected.
LockedItemIsLocked ==
    /\ LockedItemMatches(selectedCharacterId)
    /\ \A k \in 1 .. Len(states) : LockedItemMatches(states[k].selectedCharacterId)

\* C12 witness: the first card was locked, a reset followed, and the last card
\* of the catalog is locked now.
LockedItemIsLockedWitness ==
    /\ Len(states) >= 3
    /\ states[1].selectedCharacterId = 0
    /\ selectedCharacter(states[1].selectedCharacterId) = characters[0]
    /\ selectedCharacter(states[2].selectedCharacterId) = NoCharacter
    /\ selectedCharacterId = NumCharacters - 1
    /\ selectedCharacter(selectedCharacterId).id = NumCharacters - 1

\* C13 (frame of the toggle): a select(y) click that finds a card L other than
\* y locked leaves L locked, changes y's membership in the excluded set, and
\* leaves the membership of every other id as it was.
ToggleFrame ==
    \A k \in 1 .. Len(states) :
        ( /\ events[k].op = "select"
          /\ Before(k).selectedCharacterId # null
          /\ events[k].id # Before(k).selectedCharacterId )
        => /\ states[k].selectedCharacterId = Before(k).selectedCharacterId
           /\ (events[k].id \in states[k].grayedOutCards)
                  # (events[k].id \in Before(k).grayedOutCards)
           /\ \A z \in CharacterIds \ {events[k].id} :
                  (z \in states[k].grayedOutCards) = (z \in Before(k).grayedOutCards)

\* C13 witness: with one other card excluded, a card is excluded by one click
\* and included again by the next; the other card stays excluded throughout.
ToggleFrameWitness ==
    \E k \in 3 .. (Len(states) - 1) : \E z \in CharacterIds :
        /\ events[k].op = "select" /\ events[k + 1].op = "select"
        /\ events[k + 1].id = events[k].id
        /\ Before(k).selectedCharacterId # null
        /\ events[k].id # Before(k).selectedCharacterId
        /\ z # events[k].id
        /\ z \in Before(k).grayedOutCards
        /\ events[k].id \in states[k].grayedOutCards
        /\ events[k].id \notin states[k + 1].grayedOutCards
        /\ z \in states[k + 1].grayedOutCards

\* C14 (what the excluded set is): after every click that leaves a card
\* locked, the excluded set is the set of ids, other than the locked one, that
\* select was clicked with an odd number of times since the click that set the
\* lock.
ExcludedIsOddClicks ==
    \A k \in 1 .. Len(states) :
        states[k].selectedCharacterId # null =>
            states[k].grayedOutCards =
                { y \in CharacterIds \ {states[k].selectedCharacterId} :
                      SelectCount(y, LastReset(k) + 2, k) % 2 = 1 }

\* C14 witness: Scenario A on the ids of the bounded catalog: select(1),
\* select(1), select(2), select(2), select(3) leaves 1 locked and only 3
\* excluded.
ExcludedIsOddClicksWitness ==
    /\ Len(states) = 5
    /\ \A k \in 1 .. 5 : events[k].op = "select"
    /\ events[1].id = 1 /\ events[2].id = 1
    /\ events[3].id = 2 /\ events[4].id = 2
    /\ events[5].id = 3
    /\ states[1] = HookState(1, {})
    /\ states[2] = HookState(1, {})
    /\ states[3] = HookState(1, {2})
    /\ states[4] = HookState(1, {})
    /\ states[5] = HookState(1, {3})

\* C15 (totality): in every reachable state in which a click can be accepted,
\* handleCharacterSelect has a successor state for every catalog id and
\* handleReset has one too; and every handler call is followed by its
\* re-render.  (Len(events) < MaxEvents is the bound of the history.)
HandlersTotal ==
    /\ (pc = "idle" /\ Len(events) < MaxEvents) =>
           /\ \A id \in CharacterIds : ENABLED HandleCharacterSelect(id)
           /\ ENABLED HandleReset
    /\ pc = "flush" => ENABLED Render
    /\ pc \in {"idle", "flush"}

\* C15 witness: a click can be accepted in a state with a lock and excluded
\* cards, after a reset was handled in the open state and a click on the
\* locked card was handled too.
HandlersTotalWitness ==
    /\ pc = "idle"
    /\ Len(events) < MaxEvents
    /\ selectedCharacterId # null
    /\ grayedOutCards # {}
    /\ events[1].op = "reset"
    /\ \E k \in 2 .. Len(states) :
           /\ events[k].op = "select"
           /\ events[k].id = Before(k).selectedCharacterId

\* C16 (nothing excluded while nothing is locked): in every reachable state,
\* and after every click, the excluded set is empty when no card is locked;
\* the handler's lock branch itself enqueues no update of grayedOutCards, so
\* the empty set a lock starts with is the one it finds.
ExcludedEmptyWhenOpen ==
    /\ selectedCharacterId = null => grayedOutCards = {}
    /\ \A k \in 1 .. Len(states) :
           states[k].selectedCharacterId = null => states[k].grayedOutCards = {}
    /\ \A id \in CharacterIds :
           \A i \in 1 .. Len(handleCharacterSelect(null, id)) :
               handleCharacterSelect(null, id)[i].setter = "setSelectedCharacterId"
    /\ \A k \in 1 .. Len(states) :
           (events[k].op = "select" /\ Before(k).selectedCharacterId = null)
           => states[k].grayedOutCards = Before(k).grayedOutCards

\* C16 witness: cards were excluded, a reset was handled, nothing is locked
\* and nothing is excluded now; an earlier lock was set in the same way.
ExcludedEmptyWhenOpenWitness ==
    /\ pc = "idle"
    /\ selectedCharacterId = null
    /\ grayedOutCards = {}
    /\ Len(states) >= 3
    /\ events[Len(states)].op = "reset"
    /\ Before(Len(states)).grayedOutCards # {}
    /\ \E k \in 1 .. Len(states) :
           events[k].op = "select" /\ Before(k).selectedCharacterId = null

\* C17 (only catalog ids enter the state): the handler is only called from the
\* grid's iteration over the catalog, so in every reachable state, and after
\* every click, the locked id is null or a catalog id, every excluded id is a
\* catalog id, and so is every id a pending update carries.
OnlyCatalogIds ==
    /\ selectedCharacterId \in CharacterIds \cup {null}
    /\ grayedOutCards \subseteq CharacterIds
    /\ \A i \in 1 .. Len(queue) : queue[i].arg \in CharacterIds \cup {null}
    /\ \A k \in 1 .. Len(events) :
           events[k].op = "select" => events[k].id \in CharacterIds
    /\ \A k \in 1 .. Len(states) :
           /\ states[k].selectedCharacterId \in CharacterIds \cup {null}
           /\ states[k].grayedOutCards \subseteq CharacterIds

\* C17 witness: the last card of the catalog is locked and the first card is
\* excluded, after clicks on both.
OnlyCatalogIdsWitness ==
    /\ pc = "idle"
    /\ selectedCharacterId = NumCharacters - 1
    /\ 0 \in grayedOutCards
    /\ \E k \in 1 .. Len(events) : events[k].op = "select" /\ events[k].id = 0
    /\ \E k \in 1 .. Len(events) :
           events[k].op = "select" /\ events[k].id = NumCharacters - 1

\* ------------------------------------------- the clicks the page can deliver

\* {selectedCharacterId !== null && (<button onClick={handleReset}>...)}: the
\* Reset button is rendered only while a card is locked.
resetOffered(sel) == sel # null

\* A card button disabled when it is grayed out, not when it is selected.
disabledWhenGrayed(sel, gray, id) == isGrayedOut(gray, id)

\* disabled={isSelected}: the card button of the locked card takes no click.
disabled(sel, gray, id) == isSelected(sel, id)

\* A click on the card button of character id, which the browser delivers only
\* to a button that is not disabled.
ClickCard(id) ==
    /\ ~disabled(selectedCharacterId, grayedOutCards, id)
    /\ HandleCharacterSelect(id)

\* A click on the Reset button, which exists only while it is rendered.
ClickReset ==
    /\ resetOffered(selectedCharacterId)
    /\ HandleReset

NextUI ==
    \/ \E id \in CharacterIds : ClickCard(id)
    \/ ClickReset
    \/ Render

\* The page as a user can drive it: clicks on the rendered, enabled buttons.
SpecUI == Init /\ [][NextUI]_vars

\* C18 (event gating by the rendering layer), under SpecUI: whenever a click
\* can be accepted, the Reset button takes a click exactly when a card is
\* locked and a card button takes a click exactly when its card is not the
\* locked one; so every select click delivered found its card not locked
\* (any card while nothing was locked) and every reset click found a lock.
UIGating ==
    /\ (pc = "idle" /\ Len(events) < MaxEvents) =>
           /\ (ENABLED ClickReset) <=> (selectedCharacterId # null)
           /\ \A id \in CharacterIds :
                  (ENABLED ClickCard(id)) <=> (id # selectedCharacterId)
    /\ \A k \in 1 .. Len(events) :
           IF events[k].op = "select"
           THEN events[k].id # events[k].seen
           ELSE events[k].seen # null

\* C18 witness: delivered through the page: a lock, an exclusion, a reset, a
\* new lock; the Reset button and every card but the locked one take a click.
UIGatingWitness ==
    /\ pc = "idle"
    /\ Len(events) = 4
    /\ events[1].op = "select" /\ events[1].seen = null
    /\ events[2].op = "select" /\ events[2].seen # null
    /\ events[3].op = "reset"
    /\ events[4].op = "select" /\ events[4].seen = null
    /\ ENABLED ClickReset
    /\ ~ENABLED ClickCard(selectedCharacterId)
    /\ \A id \in CharacterIds \ {selectedCharacterId} : ENABLED ClickCard(id)

=============================================================================
